---- MODULE Spec2Model ----
(***************************************************************************)
(* Model of dry_counties_map.py: a one-shot pipeline that loads county     *)
(* boundaries, joins them with a hardcoded table of alcohol-sale statuses, *)
(* renders a map and spot-checks the joined table.                         *)
(*                                                                         *)
(* Strings are Python strings; dicts are functions whose DOMAIN is the set *)
(* of keys; a DataFrame is a sequence of records.  Polygon geometry and    *)
(* the plot styling are not carried: no operation modelled here reads      *)
(* them.                                                                   *)
(***************************************************************************)
EXTENDS Integers, Sequences, FiniteSets, TLC

(***************************************************************************)
(* Bounds of the model.                                                    *)
(***************************************************************************)
\* spot-check regions that an input geography may lack
MaxMissing == 1
\* further regions (territories, namesakes, duplicates) put before them
MaxExtra == 2
\* add batches applied in a free sequence of batches
MaxBatches == 3
\* places at which an order of the hardcoded batches may differ from the
\* source order (2: any two batches swapped)
MaxDisplaced == 2
\* rows by which a free table may differ from the all-PASS table
MaxDeviations == 2

(***************************************************************************)
(* Module-level constants.                                                 *)
(***************************************************************************)
STATE_FIPS_TO_NAME ==
    "01" :> "Alabama" @@ "02" :> "Alaska" @@ "04" :> "Arizona" @@
    "05" :> "Arkansas" @@ "06" :> "California" @@ "08" :> "Colorado" @@
    "09" :> "Connecticut" @@ "10" :> "Delaware" @@ "11" :> "District of Columbia" @@
    "12" :> "Florida" @@ "13" :> "Georgia" @@ "15" :> "Hawaii" @@
    "16" :> "Idaho" @@ "17" :> "Illinois" @@ "18" :> "Indiana" @@
    "19" :> "Iowa" @@ "20" :> "Kansas" @@ "21" :> "Kentucky" @@
    "22" :> "Louisiana" @@ "23" :> "Maine" @@ "24" :> "Maryland" @@
    "25" :> "Massachusetts" @@ "26" :> "Michigan" @@ "27" :> "Minnesota" @@
    "28" :> "Mississippi" @@ "29" :> "Missouri" @@ "30" :> "Montana" @@
    "31" :> "Nebraska" @@ "32" :> "Nevada" @@ "33" :> "New Hampshire" @@
    "34" :> "New Jersey" @@ "35" :> "New Mexico" @@ "36" :> "New York" @@
    "37" :> "North Carolina" @@ "38" :> "North Dakota" @@ "39" :> "Ohio" @@
    "40" :> "Oklahoma" @@ "41" :> "Oregon" @@ "42" :> "Pennsylvania" @@
    "44" :> "Rhode Island" @@ "45" :> "South Carolina" @@ "46" :> "South Dakota" @@
    "47" :> "Tennessee" @@ "48" :> "Texas" @@ "49" :> "Utah" @@
    "50" :> "Vermont" @@ "51" :> "Virginia" @@ "53" :> "Washington" @@
    "54" :> "West Virginia" @@ "55" :> "Wisconsin" @@ "56" :> "Wyoming" @@
    "72" :> "Puerto Rico"

STATE_NAME_TO_FIPS ==
    [n \in {STATE_FIPS_TO_NAME[k] : k \in DOMAIN STATE_FIPS_TO_NAME} |->
        CHOOSE k \in DOMAIN STATE_FIPS_TO_NAME : STATE_FIPS_TO_NAME[k] = n]

STATUS_DRY == "Dry"
STATUS_MOIST == "Moist"
STATUS_WET == "Wet"

(***************************************************************************)
(* str.lower(), character by character.                                    *)
(***************************************************************************)
UpperToLower ==
    "A" :> "a" @@ "B" :> "b" @@ "C" :> "c" @@ "D" :> "d" @@ "E" :> "e" @@
    "F" :> "f" @@ "G" :> "g" @@ "H" :> "h" @@ "I" :> "i" @@ "J" :> "j" @@
    "K" :> "k" @@ "L" :> "l" @@ "M" :> "m" @@ "N" :> "n" @@ "O" :> "o" @@
    "P" :> "p" @@ "Q" :> "q" @@ "R" :> "r" @@ "S" :> "s" @@ "T" :> "t" @@
    "U" :> "u" @@ "V" :> "v" @@ "W" :> "w" @@ "X" :> "x" @@ "Y" :> "y" @@
    "Z" :> "z"

LowerChar(c) == IF c \in DOMAIN UpperToLower THEN UpperToLower[c] ELSE c

RECURSIVE lower(_)
lower(s) == IF s = "" THEN "" ELSE LowerChar(Head(s)) \o lower(Tail(s))

(***************************************************************************)
(* _build_status_map: the dict keyed by <<STATEFP, lowercased county>>.    *)
(***************************************************************************)
\* dict.get(key, default)
DictGet(d, key, default) == IF key \in DOMAIN d THEN d[key] ELSE default

EmptyDict == [k \in {} |-> STATUS_WET]

\* the loop with dict.setdefault: a key already present keeps its status
AddLoop_setdefault(status, sfips, county_list, stat) ==
    status @@
        [key \in {<<sfips, lower(county_list[i])>> : i \in 1..Len(county_list)} |-> stat]

\* the loop with the county alone as the key, the state left out
AddLoop_county_key(status, sfips, county_list, stat) ==
    [key \in {<<"", lower(county_list[i])>> : i \in 1..Len(county_list)} |-> stat]
        @@ status

\* the loop "for c in county_list: status[(sfips, c.lower())] = stat": every
\* pass stores the same stat, so the passes commute and the loop stores stat
\* under each key of the list
AddLoop(status, sfips, county_list, stat) ==
    [key \in {<<sfips, lower(county_list[i])>> : i \in 1..Len(county_list)} |-> stat]
        @@ status

\* add without the early return: the batch of an unknown state is stored
\* under the None that STATE_NAME_TO_FIPS.get returned
add_no_return(status, state_name, county_list, stat) ==
    AddLoop(status, DictGet(STATE_NAME_TO_FIPS, state_name, "None"), county_list, stat)

\* the inner function add(state_name, county_list, stat), on the dict status
add(status, state_name, county_list, stat) ==
    IF state_name \notin DOMAIN STATE_NAME_TO_FIPS
    THEN status
    ELSE AddLoop(status, STATE_NAME_TO_FIPS[state_name], county_list, stat)

\* the add(...) calls of _build_status_map, in source order
HardcodedBatches == <<
    \* add(...) at source line 126
    [state_name |-> "Arkansas", stat |-> STATUS_DRY, county_list |-> <<
            "Ashley", "Bradley", "Clay", "Cleburne", "Craighead",
            "Crawford", "Faulkner", "Fulton", "Grant",
            "Hempstead", "Howard", "Independence", "Izard",
            "Johnson", "Lafayette", "Lawrence", "Lincoln",
            "Logan", "Lonoke", "Montgomery", "Nevada", "Newton",
            "Perry", "Pike", "Pope", "Scott", "Searcy",
            "Sebastian", "Stone", "White", "Yell" >>],
    \* add(...) at source line 136
    [state_name |-> "Texas", stat |-> STATUS_DRY, county_list |-> <<
            "Borden", "Kent", "Roberts" >>],
    \* add(...) at source line 140
    [state_name |-> "Mississippi", stat |-> STATUS_DRY, county_list |-> <<
            "Benton" >>],
    \* add(...) at source line 144
    [state_name |-> "Florida", stat |-> STATUS_DRY, county_list |-> <<
            "Liberty" >>],
    \* add(...) at source line 149
    [state_name |-> "South Dakota", stat |-> STATUS_DRY, county_list |-> <<
            "Oglala Lakota", "Shannon" >>],
    \* add(...) at source line 158
    [state_name |-> "Alabama", stat |-> STATUS_MOIST, county_list |-> <<
            "Blount", "Cherokee", "Chilton", "Clarke", "Clay",
            "Coffee", "Cullman", "DeKalb", "Fayette", "Franklin",
            "Geneva", "Jackson", "Lamar", "Lauderdale",
            "Lawrence", "Marion", "Marshall", "Monroe", "Morgan",
            "Pickens", "Randolph", "Washington", "Winston" >>],
    \* add(...) at source line 169
    [state_name |-> "Kentucky", stat |-> STATUS_MOIST, county_list |-> <<
            "Adair", "Allen", "Ballard", "Bath", "Breathitt",
            "Butler", "Carlisle", "Casey", "Clinton",
            "Crittenden", "Cumberland", "Elliott", "Estill",
            "Fleming", "Hancock", "Hart", "Hickman", "Jackson",
            "Knott", "Knox", "Larue", "Lawrence", "Lee", "Leslie",
            "Lincoln", "McCreary", "McLean", "Martin", "Menifee",
            "Metcalfe", "Monroe", "Morgan", "Ohio", "Owsley",
            "Powell", "Robertson", "Rockcastle", "Russell",
            "Webster" >>],
    \* add(...) at source line 181
    [state_name |-> "Mississippi", stat |-> STATUS_MOIST, county_list |-> <<
            "Alcorn", "Amite", "Calhoun", "Chickasaw", "Choctaw",
            "Clarke", "Covington", "Franklin", "George", "Greene",
            "Itawamba", "Jasper", "Jones", "Kemper", "Lamar",
            "Lawrence", "Leake", "Lincoln", "Monroe", "Neshoba",
            "Newton", "Pearl River", "Pontotoc", "Prentiss",
            "Scott", "Simpson", "Smith", "Tate", "Tippah",
            "Tishomingo", "Union", "Wayne", "Webster" >>],
    \* add(...) at source line 195
    [state_name |-> "Tennessee", stat |-> STATUS_MOIST, county_list |-> <<
            "Anderson", "Bedford", "Bledsoe", "Blount", "Bradley",
            "Campbell", "Cannon", "Carroll", "Carter", "Cheatham",
            "Chester", "Claiborne", "Clay", "Cocke", "Coffee",
            "Crockett", "Cumberland", "Decatur", "DeKalb",
            "Dickson", "Dyer", "Fayette", "Fentress", "Franklin",
            "Gibson", "Giles", "Grainger", "Greene", "Grundy",
            "Hamblen", "Hancock", "Hardeman", "Hardin", "Hawkins",
            "Haywood", "Henderson", "Henry", "Hickman", "Houston",
            "Humphreys", "Jackson", "Jefferson", "Johnson",
            "Lake", "Lauderdale", "Lawrence", "Lewis", "Lincoln",
            "Loudon", "Macon", "Madison", "Marion", "Marshall",
            "Maury", "McMinn", "McNairy", "Meigs", "Monroe",
            "Montgomery", "Moore", "Morgan", "Obion", "Overton",
            "Perry", "Pickett", "Polk", "Putnam", "Rhea", "Roane",
            "Robertson", "Rutherford", "Scott", "Sequatchie",
            "Sevier", "Smith", "Stewart", "Sullivan", "Sumner",
            "Tipton", "Trousdale", "Unicoi", "Union", "Van Buren",
            "Warren", "Washington", "Wayne", "Weakley", "White",
            "Williamson", "Wilson" >>],
    \* add(...) at source line 215
    [state_name |-> "Florida", stat |-> STATUS_MOIST, county_list |-> <<
            "Lafayette" >>],
    \* add(...) at source line 219
    [state_name |-> "Georgia", stat |-> STATUS_MOIST, county_list |-> <<
            "Bleckley", "Butts", "Coweta", "Decatur", "Dodge",
            "Effingham", "Hart" >>]
>>

RECURSIVE AddAll(_, _)
AddAll(status, batches) ==
    IF batches = <<>> THEN status
    ELSE AddAll(add(status, Head(batches).state_name, Head(batches).county_list,
                    Head(batches).stat),
                Tail(batches))

\* the table of the 2019 map, in which Hot Spring, Arkansas was still dry
build_status_map_2019 ==
    AddAll(EmptyDict,
           HardcodedBatches \o <<[state_name |-> "Arkansas", stat |-> STATUS_DRY,
                                  county_list |-> <<"Hot Spring">>]>>)

build_status_map == AddAll(EmptyDict, HardcodedBatches)

(***************************************************************************)
(* State.                                                                  *)
(***************************************************************************)
VARIABLES
    pc,                 \* position of the run
    missing,            \* environment: is a required package missing
    shp_exists,         \* environment: is the county shapefile present
    use_update,         \* "--update" in sys.argv
    COUNTY_STATUS_MAP,  \* the module-level status table
    gdf,                \* the loaded geography (a sequence of regions)
    df,                 \* the joined table
    geojson,            \* the features of the feature collection
    html,               \* the documents written to dry_counties_map.html
    update_returned,    \* what update_from_wikipedia returned and printed
    report,             \* the lines verify_data printed
    verify_returned,    \* the value verify_data returned
    stdout,             \* the step headers and diagnostics printed
    exit_code,          \* the exit status of the process
    status,             \* the dict under construction in _build_status_map
    log                 \* the add batches applied to status so far

vars == <<pc, missing, shp_exists, use_update, COUNTY_STATUS_MAP, gdf, df,
          geojson, html, update_returned, report, verify_returned, stdout,
          exit_code, status, log>>

env == <<missing, shp_exists, use_update>>

StatusValues == {STATUS_DRY, STATUS_MOIST, STATUS_WET}

(***************************************************************************)
(* Input geographies: the regions of the shapefile, each with the fields   *)
(* GEOID, STATEFP and NAME.                                                *)
(***************************************************************************)
Region(geoid, statefp, name) == [GEOID |-> geoid, STATEFP |-> statefp, NAME |-> name]

\* the regions the spot checks of verify_data look for
SpotRegions == <<
    Region("05059", "05", "Hot Spring"),
    Region("48033", "48", "Borden"),
    Region("48263", "48", "Kent"),
    Region("48393", "48", "Roberts"),
    Region("28009", "28", "Benton"),
    Region("12077", "12", "Liberty"),
    Region("01043", "01", "Cullman"),
    Region("48447", "48", "Throckmorton"),
    Region("47037", "47", "Davidson"),
    Region("47157", "47", "Shelby"),
    Region("47127", "47", "Moore")
>>

\* a namesake in another state, two territories (Puerto Rico and the US
\* Virgin Islands) and a second copy of a spot-check region
ExtraRegions == {
    Region("05007", "05", "Benton"),
    Region("72001", "72", "Adjuntas"),
    Region("78010", "78", "St. Croix"),
    Region("47127", "47", "Moore")
}

SeqsUpTo(S, n) == UNION {[1..k -> S] : k \in 0..n}

RECURSIVE Without(_, _, _)
Without(s, D, i) ==
    IF i > Len(s) THEN <<>>
    ELSE (IF i \in D THEN <<>> ELSE <<s[i]>>) \o Without(s, D, i + 1)

Geographies ==
    {extra \o Without(SpotRegions, D, 1) :
        extra \in SeqsUpTo(ExtraRegions, MaxExtra),
        D \in {X \in SUBSET (1..Len(SpotRegions)) : Cardinality(X) <= MaxMissing}}

(***************************************************************************)
(* build_county_dataset                                                    *)
(***************************************************************************)
valid_states == DOMAIN STATE_FIPS_TO_NAME

\* gdf[gdf["STATEFP"].isin(valid_states)]
FilterStates(g) == SelectSeq(g, LAMBDA row : row.STATEFP \in valid_states)

\* get_status with Dry, not Wet, as the default of the lookup
get_status_default_dry(row) ==
    DictGet(COUNTY_STATUS_MAP, <<row.STATEFP, lower(row.NAME)>>, STATUS_DRY)

\* get_status with no default: a miss yields None
get_status_no_default(row) ==
    DictGet(COUNTY_STATUS_MAP, <<row.STATEFP, lower(row.NAME)>>, "None")

get_status(row) ==
    DictGet(COUNTY_STATUS_MAP, <<row.STATEFP, lower(row.NAME)>>, STATUS_WET)

\* the DataFrame with the rows of a repeated GEOID dropped
JoinedTable_dedup(g) ==
    LET h == Without(g, {i \in 1..Len(g) : \E k \in 1..(i - 1) : g[k].GEOID = g[i].GEOID}, 1)
    IN  [i \in 1..Len(h) |->
            [fips |-> h[i].GEOID,
             county |-> h[i].NAME,
             state |-> STATE_FIPS_TO_NAME[h[i].STATEFP],
             status |-> get_status(h[i])]]

\* the DataFrame df: one row per region of the filtered geography
JoinedTable(g) ==
    [i \in 1..Len(g) |->
        [fips |-> g[i].GEOID,
         county |-> g[i].NAME,
         state |-> STATE_FIPS_TO_NAME[g[i].STATEFP],
         status |-> get_status(g[i])]]

\* the features list: one feature per region of the filtered geography
Features(g) ==
    [i \in 1..Len(g) |->
        [id |-> g[i].GEOID,
         properties |-> [name |-> g[i].NAME,
                         state |-> STATE_FIPS_TO_NAME[g[i].STATEFP]]]]

build_county_dataset(g) ==
    LET filtered == FilterStates(g)
    IN  [df |-> JoinedTable(filtered), geojson |-> Features(filtered)]

(***************************************************************************)
(* create_map: what the written document shows.                            *)
(***************************************************************************)
CountStatus(table, s) == Cardinality({i \in 1..Len(table) : table[i].status = s})

create_map(table, gj) ==
    [n_dry |-> CountStatus(table, STATUS_DRY),
     n_moist |-> CountStatus(table, STATUS_MOIST),
     n_wet |-> CountStatus(table, STATUS_WET),
     total |-> Len(table),
     locations |-> [i \in 1..Len(table) |-> table[i].fips],
     color |-> [i \in 1..Len(table) |-> table[i].status],
     features |-> gj]

(***************************************************************************)
(* verify_data                                                             *)
(***************************************************************************)
checks == <<
    [county |-> "Hot Spring", state |-> "Arkansas", expected |-> STATUS_WET],
    [county |-> "Borden", state |-> "Texas", expected |-> STATUS_DRY],
    [county |-> "Kent", state |-> "Texas", expected |-> STATUS_DRY],
    [county |-> "Roberts", state |-> "Texas", expected |-> STATUS_DRY],
    [county |-> "Benton", state |-> "Mississippi", expected |-> STATUS_DRY],
    [county |-> "Liberty", state |-> "Florida", expected |-> STATUS_DRY],
    [county |-> "Cullman", state |-> "Alabama", expected |-> STATUS_MOIST],
    [county |-> "Throckmorton", state |-> "Texas", expected |-> STATUS_WET],
    [county |-> "Davidson", state |-> "Tennessee", expected |-> STATUS_WET],
    [county |-> "Shelby", state |-> "Tennessee", expected |-> STATUS_WET],
    [county |-> "Moore", state |-> "Tennessee", expected |-> STATUS_MOIST]
>>

\* df[(df["county"] == county) & (df["state"] == state)]
MatchingRows(table, county, state) ==
    SelectSeq(table, LAMBDA r : r.county = county /\ r.state = state)

\* one pass of the loop body: the line printed for a check
CheckLine(table, c) ==
    LET row == MatchingRows(table, c.county, c.state)
    IN  IF Len(row) = 0 THEN "MISS"
        ELSE IF row[1].status = c.expected THEN "PASS" ELSE "FAIL"

\* the loop with all_pass overwritten by every check
RECURSIVE VerifyLoop_last(_, _, _, _)
VerifyLoop_last(table, todo, printed, all_pass) ==
    IF todo = <<>> THEN [printed |-> printed, all_pass |-> all_pass]
    ELSE LET line == CheckLine(table, Head(todo))
         IN  VerifyLoop_last(table, Tail(todo), Append(printed, line), line = "PASS")

RECURSIVE VerifyLoop(_, _, _, _)
VerifyLoop(table, todo, printed, all_pass) ==
    IF todo = <<>> THEN [printed |-> printed, all_pass |-> all_pass]
    ELSE LET line == CheckLine(table, Head(todo))
         IN  VerifyLoop(table, Tail(todo), Append(printed, line),
                        IF line = "PASS" THEN all_pass ELSE FALSE)

verify_data(table) == VerifyLoop(table, checks, <<>>, TRUE)

(***************************************************************************)
(* Free inputs for the builder and the verifier taken on their own.        *)
(***************************************************************************)
\* state names a batch may carry: two known ones and one that is no state
BatchStates == {"Texas", "Tennessee", "Atlantis"}

\* county lists a batch may carry; "Moore" and "MOORE" share one key
BatchCountyLists == {<<"Moore">>, <<"Lee", "MOORE">>}

\* statuses a batch may carry
BatchStatuses == {STATUS_DRY, STATUS_MOIST}

\* the table on which every check passes
AllPassTable ==
    [i \in 1..Len(checks) |->
        [fips |-> SpotRegions[i].GEOID, county |-> checks[i].county,
         state |-> checks[i].state, status |-> checks[i].expected]]

\* rows that may precede the others: a check's county under its own or
\* another state, Dry or Wet
PrefixRows ==
    UNION {
        {[fips |-> "00000", county |-> checks[i].county, state |-> s, status |-> st] :
            s \in {checks[i].state, "Kansas"}, st \in {STATUS_DRY, STATUS_WET}} :
        i \in 1..Len(checks)}

RECURSIVE Deviate(_, _, _)
Deviate(table, f, i) ==
    IF i > Len(table) THEN <<>>
    ELSE (IF i \notin DOMAIN f THEN <<table[i]>>
          ELSE IF f[i] = "absent" THEN <<>>
          ELSE <<[table[i] EXCEPT !.status = f[i]]>>)
         \o Deviate(table, f, i + 1)

\* tables that differ from AllPassTable in at most MaxDeviations rows
Tables ==
    UNION {
        {prefix \o Deviate(AllPassTable, f, 1) :
            prefix \in {p \in SeqsUpTo(PrefixRows, 1) :
                            Len(p) + Cardinality(D) <= MaxDeviations},
            f \in {g \in [D -> StatusValues \cup {"absent"}] :
                            \A i \in D : g[i] # checks[i].expected}} :
        D \in {X \in SUBSET (1..Len(checks)) : Cardinality(X) <= MaxDeviations}}

(***************************************************************************)
(* Module import: the dependency check, then COUNTY_STATUS_MAP.            *)
(***************************************************************************)
Print1(line) == stdout' = Append(stdout, line)

DependencyCheckFails ==
    /\ pc = "import"
    /\ missing
    /\ Print1("Missing packages")
    /\ exit_code' = 1
    /\ pc' = "exited"
    /\ UNCHANGED <<env, COUNTY_STATUS_MAP, gdf, df, geojson, html,
                   update_returned, report, verify_returned, status, log>>

ImportModule ==
    /\ pc = "import"
    /\ ~missing
    /\ status' = build_status_map
    /\ log' = HardcodedBatches
    /\ COUNTY_STATUS_MAP' = status'
    /\ pc' = "main"
    /\ UNCHANGED <<env, gdf, df, geojson, html, update_returned, report,
                   verify_returned, stdout, exit_code>>

(***************************************************************************)
(* main                                                                    *)
(***************************************************************************)
\* load_county_geodata without the existence check: nothing is read
load_county_geodata_unchecked ==
    /\ stdout' = stdout \o <<"[1/4]", "Loading county boundaries">>
    /\ IF shp_exists THEN \E g \in Geographies : gdf' = g ELSE gdf' = <<>>
    /\ pc' = "loaded"
    /\ exit_code' = exit_code

load_county_geodata ==
    IF ~shp_exists
    THEN /\ stdout' = stdout \o <<"[1/4]", "Error: County shapefile not found">>
         /\ exit_code' = 1
         /\ pc' = "exited"
         /\ gdf' = gdf
    ELSE /\ stdout' = stdout \o <<"[1/4]", "Loading county boundaries">>
         /\ \E g \in Geographies : gdf' = g
         /\ pc' = "loaded"
         /\ exit_code' = exit_code

MainLoad ==
    /\ pc = "main"
    /\ load_county_geodata
    /\ UNCHANGED <<env, COUNTY_STATUS_MAP, df, geojson, html, update_returned,
                   report, verify_returned, status, log>>

\* how the fetch can end: the optional libraries are missing, the page is
\* fetched, or the request raises
FetchOutcomes == {"ImportError", "fetched", "RequestException"}

\* update_from_wikipedia with the parsing done: a fetched page rewrites an entry
update_from_wikipedia_parsed(outcome) ==
    /\ update_returned' = Append(update_returned,
                                 [printed |-> outcome, returned |-> outcome = "fetched"])
    /\ COUNTY_STATUS_MAP' =
            IF outcome = "fetched"
            THEN (<<"48", "throckmorton">> :> STATUS_DRY) @@ COUNTY_STATUS_MAP
            ELSE COUNTY_STATUS_MAP

update_from_wikipedia(outcome) ==
    /\ update_returned' = Append(update_returned,
                                 [printed |-> outcome, returned |-> outcome = "fetched"])
    /\ UNCHANGED COUNTY_STATUS_MAP

MainUpdate ==
    /\ pc = "loaded"
    /\ use_update
    /\ Print1("[2/4] Updating from Wikipedia")
    /\ \E outcome \in FetchOutcomes : update_from_wikipedia(outcome)
    /\ pc' = "refreshed"
    /\ UNCHANGED <<env, gdf, df, geojson, html, report, verify_returned,
                   exit_code, status, log>>

MainSkipUpdate ==
    /\ pc = "loaded"
    /\ ~use_update
    /\ Print1("[2/4] Using hardcoded dataset")
    /\ pc' = "refreshed"
    /\ UNCHANGED <<env, COUNTY_STATUS_MAP, gdf, df, geojson, html,
                   update_returned, report, verify_returned, exit_code, status, log>>

MainBuild ==
    /\ pc = "refreshed"
    /\ Print1("[3/4]")
    /\ df' = build_county_dataset(gdf).df
    /\ geojson' = build_county_dataset(gdf).geojson
    /\ pc' = "joined"
    /\ UNCHANGED <<env, COUNTY_STATUS_MAP, gdf, html, update_returned, report,
                   verify_returned, exit_code, status, log>>

MainCreateMap ==
    /\ pc = "joined"
    /\ Print1("[4/4]")
    /\ html' = Append(html, create_map(df, geojson))
    /\ pc' = "rendered"
    /\ UNCHANGED <<env, COUNTY_STATUS_MAP, gdf, df, geojson, update_returned,
                   report, verify_returned, exit_code, status, log>>

MainVerify ==
    /\ pc = "rendered"
    /\ report' = verify_data(df).printed
    /\ verify_returned' = <<verify_data(df).all_pass>>
    /\ pc' = "verified"
    /\ UNCHANGED <<env, COUNTY_STATUS_MAP, gdf, df, geojson, html,
                   update_returned, stdout, exit_code, status, log>>

\* the summary with the result of verify_data enforced: a failed verification
\* ends the run with exit code 1
MainSummary_enforced ==
    /\ pc = "verified"
    /\ IF verify_returned = <<TRUE>>
       THEN Print1("DONE!") /\ pc' = "done" /\ exit_code' = exit_code
       ELSE Print1("Verification failed") /\ pc' = "exited" /\ exit_code' = 1
    /\ UNCHANGED <<env, COUNTY_STATUS_MAP, gdf, df, geojson, html,
                   update_returned, report, verify_returned, status, log>>

MainSummary ==
    /\ pc = "verified"
    /\ Print1("DONE!")
    /\ pc' = "done"
    /\ UNCHANGED <<env, COUNTY_STATUS_MAP, gdf, df, geojson, html,
                   update_returned, report, verify_returned, exit_code, status, log>>

Blank ==
    /\ COUNTY_STATUS_MAP = EmptyDict
    /\ gdf = <<>>
    /\ df = <<>>
    /\ geojson = <<>>
    /\ html = <<>>
    /\ update_returned = <<>>
    /\ report = <<>>
    /\ verify_returned = <<>>
    /\ stdout = <<>>
    /\ exit_code = 0
    /\ status = EmptyDict
    /\ log = <<>>

Init ==
    /\ pc = "import"
    /\ missing \in BOOLEAN
    /\ shp_exists \in BOOLEAN
    /\ use_update \in BOOLEAN
    /\ Blank

Next ==
    \/ DependencyCheckFails
    \/ ImportModule
    \/ MainLoad
    \/ MainUpdate
    \/ MainSkipUpdate
    \/ MainBuild
    \/ MainCreateMap
    \/ MainVerify
    \/ MainSummary

Spec == Init /\ [][Next]_vars

(***************************************************************************)
(* _build_status_map on a free sequence of add batches.                    *)
(***************************************************************************)
AddBatch ==
    /\ pc = "build"
    /\ Len(log) < MaxBatches
    /\ \E state_name \in BatchStates, county_list \in BatchCountyLists,
          stat \in BatchStatuses :
            /\ status' = add(status, state_name, county_list, stat)
            /\ log' = Append(log, [state_name |-> state_name, stat |-> stat,
                                   county_list |-> county_list])
    /\ UNCHANGED <<pc, env, COUNTY_STATUS_MAP, gdf, df, geojson, html,
                   update_returned, report, verify_returned, stdout, exit_code>>

ReturnStatus ==
    /\ pc = "build"
    /\ COUNTY_STATUS_MAP' = status
    /\ pc' = "main"
    /\ UNCHANGED <<env, gdf, df, geojson, html, update_returned, report,
                   verify_returned, stdout, exit_code, status, log>>

InitAdd ==
    /\ pc = "build"
    /\ missing = FALSE
    /\ shp_exists = TRUE
    /\ use_update = FALSE
    /\ Blank

NextAdd == AddBatch \/ ReturnStatus

SpecAdd == InitAdd /\ [][NextAdd]_vars

(***************************************************************************)
(* _build_status_map with its own add calls taken in another order.        *)
(***************************************************************************)
\* the place of a batch in the source
SourceIndex(b) == CHOOSE i \in 1..Len(HardcodedBatches) : HardcodedBatches[i] = b

\* an order s of source places, so far, can still be completed to an order
\* that differs from the source order at no more than MaxDisplaced places:
\* the places already filled with another batch, plus the later places whose
\* own batch is already used
WithinDisplaced(s) ==
    Cardinality({k \in 1..Len(s) : s[k] # k})
        + Cardinality({k \in 1..Len(s) : s[k] > Len(s)}) <= MaxDisplaced

AddHardcoded ==
    /\ pc = "hardcoded"
    /\ \E i \in 1..Len(HardcodedBatches) :
        LET b == HardcodedBatches[i]
        IN  /\ \A n \in 1..Len(log) : log[n] # b
            /\ WithinDisplaced([n \in 1..Len(log) |-> SourceIndex(log[n])] \o <<i>>)
            /\ status' = add(status, b.state_name, b.county_list, b.stat)
            /\ log' = Append(log, b)
    /\ UNCHANGED <<pc, env, COUNTY_STATUS_MAP, gdf, df, geojson, html,
                   update_returned, report, verify_returned, stdout, exit_code>>

ReturnHardcoded ==
    /\ pc = "hardcoded"
    /\ Len(log) = Len(HardcodedBatches)
    /\ COUNTY_STATUS_MAP' = status
    /\ pc' = "main"
    /\ UNCHANGED <<env, gdf, df, geojson, html, update_returned, report,
                   verify_returned, stdout, exit_code, status, log>>

InitHardcoded ==
    /\ pc = "hardcoded"
    /\ missing = FALSE
    /\ shp_exists = TRUE
    /\ use_update = FALSE
    /\ Blank

NextHardcoded == AddHardcoded \/ ReturnHardcoded

SpecHardcoded == InitHardcoded /\ [][NextHardcoded]_vars

(***************************************************************************)
(* verify_data on a free table.                                            *)
(***************************************************************************)
InitVerify ==
    /\ pc = "rendered"
    /\ missing = FALSE
    /\ shp_exists = TRUE
    /\ use_update = FALSE
    /\ COUNTY_STATUS_MAP = EmptyDict
    /\ gdf = <<>>
    /\ df \in Tables
    /\ geojson = <<>>
    /\ html = <<>>
    /\ update_returned = <<>>
    /\ report = <<>>
    /\ verify_returned = <<>>
    /\ stdout = <<>>
    /\ exit_code = 0
    /\ status = EmptyDict
    /\ log = <<>>

NextVerify == MainVerify \/ MainSummary

SpecVerify == InitVerify /\ [][NextVerify]_vars

(***************************************************************************)
(* Properties.                                                             *)
(***************************************************************************)
\* positions of main at which build_county_dataset has returned
AfterJoin == {"joined", "rendered", "verified", "done"}

KeyOf(row) == <<row.STATEFP, lower(row.NAME)>>

\* C1: after build_county_dataset, every region of the input whose state
\* code is kept and whose key (STATEFP, lowercased NAME) is not in the
\* status table has a row in the table, and each of its rows has status Wet.
C1_DefaultWet ==
    pc \in AfterJoin =>
        \A j \in 1..Len(gdf) :
            (gdf[j].STATEFP \in valid_states /\ KeyOf(gdf[j]) \notin DOMAIN COUNTY_STATUS_MAP)
            => /\ \E i \in 1..Len(df) : df[i].fips = gdf[j].GEOID
               /\ \A i \in 1..Len(df) :
                    df[i].fips = gdf[j].GEOID => df[i].status = "Wet"

\* a joined table with an unlisted region (Hot Spring, Arkansas) next to a
\* listed one
C1_Witness ==
    /\ pc \in AfterJoin
    /\ <<"05", "hot spring">> \notin DOMAIN COUNTY_STATUS_MAP
    /\ \E i \in 1..Len(df) : df[i].fips = "05059" /\ df[i].status = "Wet"
    /\ \E i \in 1..Len(df) : df[i].status # "Wet"

\* state codes of the territories in the Census county file: American Samoa,
\* Guam, Northern Mariana Islands, Puerto Rico, US Virgin Islands
TerritoryFips == {"60", "66", "69", "72", "78"}

C3_Aligned ==
    pc \in AfterJoin =>
        LET kept == {j \in 1..Len(gdf) : gdf[j].STATEFP \in valid_states}
        IN  /\ Len(df) = Cardinality(kept)
            /\ Len(geojson) = Cardinality(kept)
            /\ \A i \in 1..Len(df) :
                /\ df[i].fips = geojson[i].id
                /\ df[i].fips = FilterStates(gdf)[i].GEOID

\* a join that dropped a region of a territory and kept both copies of a
\* region that the geography lists twice
C3_Witness ==
    /\ pc \in AfterJoin
    /\ Len(df) < Len(gdf)
    /\ \E i, k \in 1..Len(df) : i # k /\ df[i].fips = df[k].fips

\* C4: every row of the joined table has a status that is one of Dry, Moist
\* and Wet, and no step after the join changes the table.
C4_StatusEnumerated ==
    /\ [](\A i \in 1..Len(df) : df[i].status \in {"Dry", "Moist", "Wet"})
    /\ [][(pc \in AfterJoin) => (df' = df)]_vars

\* the run has ended with a table that holds all three statuses
C4_Witness ==
    /\ pc = "done"
    /\ \A s \in {"Dry", "Moist", "Wet"} : \E i \in 1..Len(df) : df[i].status = s

\* the keys a batch writes: none when its state name is unknown
KeysOf(b) ==
    IF b.state_name \notin DOMAIN STATE_NAME_TO_FIPS THEN {}
    ELSE {<<STATE_NAME_TO_FIPS[b.state_name], lower(b.county_list[i])>> :
            i \in 1..Len(b.county_list)}

\* the batches of the log that wrote key k
Writers(k) == {i \in 1..Len(log) : k \in KeysOf(log[i])}

\* C5: after any sequence of add batches the dict holds exactly the keys
\* some batch wrote, each with the status of the last batch that wrote it.
C5_LastWriteWins ==
    /\ DOMAIN status = UNION {KeysOf(log[i]) : i \in 1..Len(log)}
    /\ \A k \in DOMAIN status :
        LET last == CHOOSE i \in Writers(k) : \A j \in Writers(k) : j <= i
        IN  status[k] = log[last].stat

\* a key written by two batches that carry different statuses
C5_Witness ==
    \E k \in DOMAIN status :
        \E i, j \in Writers(k) : i < j /\ log[i].stat # log[j].stat

\* C6: a batch whose state name is unknown leaves the dict as it was and
\* raises nothing (the builder stays where it was, the exit code is
\* untouched), and the known batches after it are still stored.
C6_UnknownStateSkipped ==
    /\ [][(log' # log /\ log'[Len(log')].state_name \notin DOMAIN STATE_NAME_TO_FIPS)
            => (status' = status /\ pc' = pc /\ exit_code' = exit_code)]_vars
    /\ [](\A i, j \in 1..Len(log) :
            (i < j /\ log[i].state_name \notin DOMAIN STATE_NAME_TO_FIPS
                   /\ log[j].state_name \in DOMAIN STATE_NAME_TO_FIPS)
            => \A n \in 1..Len(log[j].county_list) :
                <<STATE_NAME_TO_FIPS[log[j].state_name], lower(log[j].county_list[n])>>
                    \in DOMAIN status)

\* a non-empty dict, then a batch of an unknown state, then a known batch
C6_Witness ==
    /\ Len(log) = 3
    /\ log[1].state_name \in DOMAIN STATE_NAME_TO_FIPS
    /\ log[2].state_name \notin DOMAIN STATE_NAME_TO_FIPS
    /\ log[3].state_name \in DOMAIN STATE_NAME_TO_FIPS
    /\ log[3].state_name # log[1].state_name
    /\ Cardinality(DOMAIN status) >= 2

\* the geography lists every spot-check county under its state
HasEveryCheckedCounty(g) ==
    \A c \in 1..Len(checks) :
        \E j \in 1..Len(g) :
            /\ g[j].NAME = checks[c].county
            /\ g[j].STATEFP \in DOMAIN STATE_FIPS_TO_NAME
            /\ STATE_FIPS_TO_NAME[g[j].STATEFP] = checks[c].state

\* the spot checks the text lists
ListedChecks == {
    [county |-> "Hot Spring", state |-> "Arkansas", expected |-> "Wet"],
    [county |-> "Borden", state |-> "Texas", expected |-> "Dry"],
    [county |-> "Benton", state |-> "Mississippi", expected |-> "Dry"],
    [county |-> "Cullman", state |-> "Alabama", expected |-> "Moist"],
    [county |-> "Davidson", state |-> "Tennessee", expected |-> "Wet"],
    [county |-> "Moore", state |-> "Tennessee", expected |-> "Moist"]
}

\* C7: on a table joined from a geography that lists every spot-check
\* county under its state, verify_data prints PASS for every check of its
\* list, which holds the listed checks, and returns true.
C7_SpotChecksPass ==
    (pc \in {"verified", "done"} /\ HasEveryCheckedCounty(gdf))
    => /\ ListedChecks \subseteq {checks[c] : c \in 1..Len(checks)}
       /\ Len(report) = Len(checks)
       /\ \A c \in 1..Len(report) : report[c] = "PASS"
       /\ verify_returned = <<TRUE>>

\* verify_data has run on a geography with every checked county and with
\* further regions before them
C7_Witness ==
    /\ pc = "verified"
    /\ HasEveryCheckedCounty(gdf)
    /\ Len(gdf) > Len(checks)
    /\ Len(report) = Len(checks)

\* the rows of the table that match a check
Matches(c) == {j \in 1..Len(df) : df[j].county = checks[c].county /\ df[j].state = checks[c].state}

\* C8: for any table verify_data prints MISS for a check that no row
\* matches, else PASS or FAIL as the status of the first matching row is
\* the expected one or not, and returns true exactly when every line is PASS.
C8_VerifyReport ==
    pc \in {"verified", "done"}
    => /\ Len(report) = Len(checks)
       /\ \A c \in 1..Len(checks) :
            IF Matches(c) = {} THEN report[c] = "MISS"
            ELSE LET first == CHOOSE j \in Matches(c) : \A k \in Matches(c) : j <= k
                 IN  report[c] = IF df[first].status = checks[c].expected
                                 THEN "PASS" ELSE "FAIL"
       /\ verify_returned = <<\A c \in 1..Len(checks) : report[c] = "PASS">>

\* a report with a MISS and a FAIL followed by a PASS
C8_Witness ==
    /\ pc = "verified"
    /\ \E c \in 1..Len(report) : report[c] = "MISS"
    /\ \E c \in 1..Len(report) : report[c] = "FAIL"
    /\ report[Len(report)] = "PASS"
    /\ verify_returned = <<FALSE>>

\* the table a run without --update joins: the statuses of the dict that
\* _build_status_map returned at import, Wet where it has none
TableWithoutUpdate(g) ==
    LET kept == FilterStates(g)
    IN  [i \in 1..Len(kept) |->
            [fips |-> kept[i].GEOID,
             county |-> kept[i].NAME,
             state |-> STATE_FIPS_TO_NAME[kept[i].STATEFP],
             status |-> DictGet(status, KeyOf(kept[i]), "Wet")]]

\* C9: the refresh step leaves the status table as it was, however the
\* fetch ends: at the join the table is still the dict _build_status_map
\* returned, and the joined table of any run, with or without --update, is
\* the one a run without --update joins from the same geography.
C9_RefreshChangesNothing ==
    /\ [][(pc = "loaded") => (COUNTY_STATUS_MAP' = COUNTY_STATUS_MAP)]_vars
    /\ [](pc \in AfterJoin =>
            /\ COUNTY_STATUS_MAP = status
            /\ df = TableWithoutUpdate(gdf))

\* a table joined after a fetch that succeeded
C9_Witness ==
    /\ pc \in AfterJoin
    /\ use_update
    /\ Len(update_returned) = 1
    /\ update_returned[1].returned
    /\ \E i \in 1..Len(df) : df[i].status # "Wet"

\* C10: with the shapefile absent, load_county_geodata ends the run with a
\* non-zero exit code, and no later step (refresh, join, render, verify,
\* summary) ever runs: nothing is read, joined, written or reported.
C10_MissingShapefileIsFatal ==
    /\ [][(~shp_exists /\ pc = "main") => (pc' = "exited" /\ exit_code' # 0)]_vars
    /\ [](~shp_exists =>
            /\ pc \in {"import", "main", "exited"}
            /\ pc = "exited" => exit_code # 0
            /\ gdf = <<>> /\ df = <<>> /\ geojson = <<>> /\ html = <<>>
            /\ update_returned = <<>> /\ report = <<>> /\ verify_returned = <<>>
            /\ \A n \in 1..Len(stdout) :
                stdout[n] \in {"Missing packages", "[1/4]",
                               "Error: County shapefile not found"})

\* the run has ended in load_county_geodata
C10_Witness ==
    /\ ~shp_exists
    /\ ~missing
    /\ pc = "exited"
    /\ exit_code = 1
    /\ stdout = <<"[1/4]", "Error: County shapefile not found">>

\* C11: verify_data runs only once the map is written, and what it returns
\* is dropped: from the verification on, whatever it returned, the run goes
\* to the summary and ends there with exit code 0, and the written document
\* stays the one create_map made of the joined table.
C11_VerifyResultDiscarded ==
    /\ [](verify_returned # <<>> => Len(html) = 1)
    /\ [][(pc = "rendered") =>
            (pc' = "verified" /\ html' = html /\ exit_code' = exit_code)]_vars
    /\ [][(pc = "verified") =>
            (pc' = "done" /\ html' = html /\ exit_code' = exit_code)]_vars
    /\ [](pc = "verified" => ENABLED MainSummary)
    /\ [](pc = "done" =>
            /\ exit_code = 0
            /\ html = <<create_map(df, geojson)>>
            /\ stdout[Len(stdout)] = "DONE!")

\* a run that ended normally after a verification that did not pass
C11_Witness ==
    /\ pc = "done"
    /\ verify_returned = <<FALSE>>
    /\ \E c \in 1..Len(report) : report[c] = "MISS"
    /\ exit_code = 0
    /\ Len(html) = 1

\* the number of writes the batches of a log make
RECURSIVE WritesOf(_)
WritesOf(l) == IF l = <<>> THEN 0 ELSE Len(Head(l).county_list) + WritesOf(Tail(l))

\* C12: whatever the order of the hardcoded add batches, every write goes to
\* a key not written before, within its batch and across the batches (the
\* dict has as many keys as writes were made), and the table returned is the
\* one the source order builds.
C12_NoKeyWrittenTwice ==
    /\ Cardinality(DOMAIN status) = WritesOf(log)
    /\ pc = "main" => COUNTY_STATUS_MAP = build_status_map

\* the table is returned from an order in which the Moist batches of
\* Mississippi and of Florida came before their Dry batches
C12_Witness ==
    /\ pc = "main"
    /\ Len(log) = Len(HardcodedBatches)
    /\ \E i, j \in 1..Len(log) :
        /\ i < j
        /\ log[i].state_name = log[j].state_name
        /\ log[i].stat = "Moist"
        /\ log[j].stat = "Dry"
    /\ Cardinality(DOMAIN COUNTY_STATUS_MAP) > 0

====
